---------------------------- MODULE Spec2Model ----------------------------
(***************************************************************************)
(* Model of awx/main/access.py: the access registry, the dispatcher        *)
(* check_user_access, the visibility resolver get_user_queryset and the    *)
(* thirteen access classes, over a small relation store.                   *)
(*                                                                         *)
(* Objects are primary keys (positive integers) inside their model; 0 is   *)
(* Python's None.  The outcome of a call is a record: a returned boolean   *)
(* (exc = "none") or a raised exception (exc names it; instances is the    *)
(* number carried by the license error).                                   *)
(***************************************************************************)
EXTENDS Integers, Sequences, FiniteSets, TLC

(* ------------------------------ bounds -------------------------------- *)
NumUsers == 3
NumGroups == 3
MaxFree == 1
MaxEvaluators == 2

Users == 1..NumUsers
Orgs == 1..2
Teams == 1..2
Inventories == 1..2
Hosts == 1..2
Groups == 1..NumGroups
Credentials == 1..3
Projects == 1..2
Permissions == 1..2
JobTemplates == 1..2
Jobs == 1..2
JobHostSummaries == 1..1
JobEvents == 1..2
None == 0

(* --------------------- constants of the program ----------------------- *)
PERM_INVENTORY_ADMIN == "admin"
PERM_INVENTORY_READ == "read"
PERM_INVENTORY_WRITE == "write"
PERM_INVENTORY_DEPLOY == "run"
PERM_INVENTORY_CHECK == "check"

PERMISSION_TYPES ==
    {PERM_INVENTORY_ADMIN, PERM_INVENTORY_READ, PERM_INVENTORY_WRITE,
     PERM_INVENTORY_DEPLOY, PERM_INVENTORY_CHECK}

PERMISSION_TYPES_ALLOWING_INVENTORY_READ ==
    {PERM_INVENTORY_ADMIN, PERM_INVENTORY_WRITE, PERM_INVENTORY_READ}

PERMISSION_TYPES_ALLOWING_INVENTORY_WRITE ==
    {PERM_INVENTORY_ADMIN, PERM_INVENTORY_WRITE}

PERMISSION_TYPES_ALLOWING_INVENTORY_ADMIN ==
    {PERM_INVENTORY_ADMIN}

\* The value the test hack writes over the license's free_instances.
TEST_FREE_INSTANCES == 99999999

Models ==
    {"User", "Organization", "Inventory", "Host", "Group", "Credential", "Team",
     "Project", "Permission", "JobTemplate", "Job", "JobHostSummary", "JobEvent"}

AccessClasses ==
    {"UserAccess", "OrganizationAccess", "InventoryAccess", "HostAccess",
     "GroupAccess", "CredentialAccess", "TeamAccess", "ProjectAccess",
     "PermissionAccess", "JobTemplateAccess", "JobAccess",
     "JobHostSummaryAccess", "JobEventAccess"}

\* The model attribute of each access class.
ModelOf(cls) ==
    CASE cls = "UserAccess" -> "User"
      [] cls = "OrganizationAccess" -> "Organization"
      [] cls = "InventoryAccess" -> "Inventory"
      [] cls = "HostAccess" -> "Host"
      [] cls = "GroupAccess" -> "Group"
      [] cls = "CredentialAccess" -> "Credential"
      [] cls = "TeamAccess" -> "Team"
      [] cls = "ProjectAccess" -> "Project"
      [] cls = "PermissionAccess" -> "Permission"
      [] cls = "JobTemplateAccess" -> "JobTemplate"
      [] cls = "JobAccess" -> "Job"
      [] cls = "JobHostSummaryAccess" -> "JobHostSummary"
      [] cls = "JobEventAccess" -> "JobEvent"

\* model_class.objects.all(): every stored primary key of a model.
Objects(model) ==
    CASE model = "User" -> Users
      [] model = "Organization" -> Orgs
      [] model = "Inventory" -> Inventories
      [] model = "Host" -> Hosts
      [] model = "Group" -> Groups
      [] model = "Credential" -> Credentials
      [] model = "Team" -> Teams
      [] model = "Project" -> Projects
      [] model = "Permission" -> Permissions
      [] model = "JobTemplate" -> JobTemplates
      [] model = "Job" -> Jobs
      [] model = "JobHostSummary" -> JobHostSummaries
      [] model = "JobEvent" -> JobEvents

(* ------------------------------ state --------------------------------- *)
VARIABLES
    users,          \* [Users -> [is_superuser, is_active]]
    organizations,  \* [Orgs -> [admins, users]]
    teams,          \* [Teams -> [organization, users, active]]
    inventories,    \* [Inventories -> [organization, active]]
    hosts,          \* [Hosts -> [inventory, active]]
    groups,         \* [Groups -> [inventory, active, parents]]
    credentials,    \* [Credentials -> [user, team, active]]
    projects,       \* [Projects -> [created_by, organizations, teams]]
    permissions,    \* [Permissions -> [user, team, inventory, project, permission_type]]
    job_templates,  \* [JobTemplates -> [inventory, project, job_type, active]]
    jobs,           \* [Jobs -> [status]]
    license,        \* what LicenseReader().from_file() returns
    argv_test,      \* 'test' in sys.argv
    access_registry,\* [Models -> Seq(AccessClasses)]
    call,           \* the authorization or visibility call in progress
    result,         \* the outcome of check_user_access
    visible         \* the queryset get_user_queryset returned

store ==
    <<users, organizations, teams, inventories, hosts, groups, credentials,
      projects, permissions, job_templates, jobs, license, argv_test>>

vars == <<store, access_registry, call, result, visible>>

(* ----------------------------- outcomes ------------------------------- *)
Ret(b) == [exc |-> "none", val |-> b, instances |-> 0]
Raise(e) == [exc |-> e, val |-> FALSE, instances |-> 0]
RaiseLicense(n) == [exc |-> "PermissionDenied:license", val |-> FALSE, instances |-> n]

IsRaise(r) == r.exc # "none"
Truthy(r) == r.exc = "none" /\ r.val

\* Python's "a and b" / "a or b" / "not a" over outcomes: an exception raised
\* while evaluating the left operand propagates, the right one is not evaluated.
AndThen(a, b) == IF IsRaise(a) THEN a ELSE IF a.val THEN b ELSE Ret(FALSE)
OrElse(a, b) == IF IsRaise(a) THEN a ELSE IF a.val THEN Ret(TRUE) ELSE b

(* ----------------------------- payloads ------------------------------- *)
DataKeys ==
    {"organization", "inventory", "project", "job_type", "credential",
     "user", "team", "_method", "name"}

\* A payload: None (isdict = FALSE) or a dict with the keys in "keys";
\* the value of a key the dict lacks is None / "".
NoneData ==
    [isdict |-> FALSE, keys |-> {}, organization |-> None, inventory |-> None,
     project |-> None, job_type |-> "", credential |-> None, user |-> None,
     team |-> None]

EmptyDict == [NoneData EXCEPT !.isdict = TRUE]

Has(data, k) == data.isdict /\ k \in data.keys
\* bool(data): None and {} are falsy.
DataTruthy(data) == data.isdict /\ data.keys # {}


(* ------------------------ relation traversal -------------------------- *)
\* user.admin_of_organizations, user.organizations, user.teams: the reverse
\* sides of Organization.admins, Organization.users and Team.users.
admin_of_organizations(u) == {o \in Orgs : u \in organizations[o].admins}
user_organizations(u) == {o \in Orgs : u \in organizations[o].users}
user_teams(u) == {t \in Teams : u \in teams[t].users}

\* The closure of a group's parents / children (Group.all_parents,
\* Group.all_children).
RECURSIVE ParentsClosure(_, _)
ParentsClosure(frontier, seen) ==
    LET new == (UNION {groups[g].parents : g \in frontier}) \ seen
    IN  IF new = {} THEN seen ELSE ParentsClosure(new, seen \cup new)

all_parents(g) == ParentsClosure({g}, {})

RECURSIVE ChildrenClosure(_, _)
ChildrenClosure(frontier, seen) ==
    LET new == {c \in Groups : groups[c].parents \cap frontier # {}} \ seen
    IN  IF new = {} THEN seen ELSE ChildrenClosure(new, seen \cup new)

all_children(g) == ChildrenClosure({g}, {})

(* -------------------- arguments of an access method ------------------- *)
\* can_read(obj), can_delete(obj), can_add(data), can_change(obj, data),
\* can_attach(obj, sub_obj, relationship, data, skip_sub_obj_read_check),
\* can_unattach(obj, sub_obj, relationship); sub_model is type(sub_obj).
Args(obj, sub_model, sub_obj, data, skip) ==
    [obj |-> obj, sub_model |-> sub_model, sub_obj |-> sub_obj, data |-> data,
     skip |-> skip]

ObjArgs(obj) == Args(obj, "", None, NoneData, FALSE)
ObjDataArgs(obj, data) == Args(obj, "", None, data, FALSE)
DataArgs(data) == Args(None, "", None, data, FALSE)

QS(model, pks) == [model |-> model, pks |-> pks]

RECURSIVE check_user_access(_, _, _, _)
RECURSIVE get_user_queryset(_, _)

(* ----------------------------- UserAccess ----------------------------- *)
UserAccess_get_queryset(user) ==
    LET qs == {u \in Users : users[u].is_active}
    IN  IF users[user].is_superuser
        THEN QS("User", qs)
        ELSE QS("User",
                {u \in qs :
                    \/ u = user
                    \/ user_organizations(u) \cap admin_of_organizations(user) # {}
                    \/ user_teams(u) \cap user_teams(user) # {}})

UserAccess_can_admin(user, obj, data) ==
    IF users[user].is_superuser
    THEN Ret(TRUE)
    ELSE Ret(\E o \in user_organizations(obj) : user \in organizations[o].admins)

UserAccess_can_change(user, obj, data) ==
    OrElse(Ret(user = obj), UserAccess_can_admin(user, obj, data))

UserAccess_can_read(user, obj) ==
    LET matching_teams == Cardinality({t \in user_teams(user) : user \in teams[t].users})
    IN  OrElse(Ret(matching_teams # 0), UserAccess_can_change(user, obj, NoneData))

UserAccess_can_add(user, data) ==
    Ret(users[user].is_superuser \/ Cardinality(admin_of_organizations(user)) # 0)

UserAccess_can_delete_mut_nolast(user, obj) ==
    IF obj = user
    THEN Ret(FALSE)
    ELSE Ret(users[user].is_superuser
             \/ \E o \in user_organizations(obj) : user \in organizations[o].admins)

UserAccess_can_delete(user, obj) ==
    LET super_users == {u \in Users : users[u].is_active /\ users[u].is_superuser}
    IN  IF obj = user
        THEN Ret(FALSE)
        ELSE IF users[obj].is_superuser /\ Cardinality(super_users) = 1
        THEN Ret(FALSE)
        ELSE Ret(users[user].is_superuser
                 \/ \E o \in user_organizations(obj) : user \in organizations[o].admins)

(* ------------------------- OrganizationAccess ------------------------- *)
OrganizationAccess_get_queryset(user) ==
    IF users[user].is_superuser
    THEN QS("Organization", Orgs)
    ELSE QS("Organization",
            {o \in Orgs : user \in organizations[o].admins
                          \/ user \in organizations[o].users})

OrganizationAccess_can_change(user, obj, data) ==
    Ret(users[user].is_superuser \/ user \in organizations[obj].admins)

OrganizationAccess_can_read(user, obj) ==
    OrElse(OrganizationAccess_can_change(user, obj, NoneData),
           Ret(user \in organizations[obj].users))

OrganizationAccess_can_delete(user, obj) ==
    OrganizationAccess_can_change(user, obj, NoneData)

(* -------------------------- InventoryAccess --------------------------- *)
InventoryAccess_get_queryset(user, allowed) ==
    LET qs == {i \in Inventories : inventories[i].active}
        admin_of == {i \in qs : user \in organizations[inventories[i].organization].admins}
        has_user_perms ==
            {i \in qs : \E p \in Permissions :
                /\ permissions[p].inventory = i
                /\ permissions[p].user = user
                /\ permissions[p].permission_type \in allowed}
        has_team_perms ==
            {i \in qs : \E p \in Permissions :
                /\ permissions[p].inventory = i
                /\ permissions[p].team # None
                /\ user \in teams[permissions[p].team].users
                /\ permissions[p].permission_type \in allowed}
    IN  IF users[user].is_superuser
        THEN QS("Inventory", qs)
        ELSE QS("Inventory", admin_of \cup has_user_perms \cup has_team_perms)

InventoryAccess_has_permission_types(user, obj, allowed) ==
    Ret(obj # None /\ obj \in InventoryAccess_get_queryset(user, allowed).pks)

InventoryAccess_can_read_mut_anygrant(user, obj) ==
    InventoryAccess_has_permission_types(user, obj, PERMISSION_TYPES)

InventoryAccess_can_read(user, obj) ==
    InventoryAccess_has_permission_types(user, obj,
                                         PERMISSION_TYPES_ALLOWING_INVENTORY_READ)

InventoryAccess_can_add(user, data) ==
    IF ~DataTruthy(data)
    THEN Ret(users[user].is_superuser \/ Cardinality(admin_of_organizations(user)) # 0)
    ELSE IF users[user].is_superuser
    THEN Ret(TRUE)
    ELSE IF ~(Has(data, "organization") /\ data.organization \in Orgs)
    THEN Raise("ParseError")   \* get_object_or_400 finds no such organization
    ELSE check_user_access(user, "Organization", "change",
                           ObjDataArgs(data.organization, NoneData))

InventoryAccess_can_change(user, obj, data) ==
    LET add == IF DataTruthy(data) /\ Has(data, "organization")
               THEN InventoryAccess_can_add(user, data)
               ELSE Ret(TRUE)
    IN  AndThen(add,
                InventoryAccess_has_permission_types(
                    user, obj, PERMISSION_TYPES_ALLOWING_INVENTORY_WRITE))

InventoryAccess_can_admin(user, obj, data) ==
    LET add == IF DataTruthy(data) /\ Has(data, "organization")
               THEN InventoryAccess_can_add(user, data)
               ELSE Ret(TRUE)
    IN  AndThen(add,
                InventoryAccess_has_permission_types(
                    user, obj, PERMISSION_TYPES_ALLOWING_INVENTORY_ADMIN))

InventoryAccess_can_delete(user, obj) ==
    InventoryAccess_can_admin(user, obj, NoneData)

(* ---------------------------- HostAccess ------------------------------ *)
HostAccess_get_queryset(user) ==
    LET qs == {h \in Hosts : hosts[h].active}
        inventories_qs == get_user_queryset(user, "Inventory")
    IN  QS("Host", {h \in qs : hosts[h].inventory \in inventories_qs.pks})

HostAccess_can_read(user, obj) ==
    check_user_access(user, "Inventory", "read", ObjArgs(hosts[obj].inventory))

\* validation_info after the test hack.
validation_info ==
    IF argv_test
    THEN [license EXCEPT !.free_instances = TEST_FREE_INSTANCES]
    ELSE license

HostAccess_can_add_mut_plaindeny(user, data) ==
    IF ~DataTruthy(data) \/ ~Has(data, "inventory")
    THEN Ret(FALSE)
    ELSE IF data.inventory \notin Inventories
    THEN Raise("ParseError")
    ELSE LET change == check_user_access(user, "Inventory", "change",
                                         ObjDataArgs(data.inventory, NoneData))
         IN  IF ~Truthy(change)
             THEN (IF IsRaise(change) THEN change ELSE Ret(FALSE))
             ELSE Ret(validation_info.free_instances > 0)

HostAccess_can_add(user, data) ==
    IF ~DataTruthy(data) \/ ~Has(data, "inventory")
    THEN Ret(FALSE)
    ELSE IF data.inventory \notin Inventories
    THEN Raise("ParseError")   \* get_object_or_400 finds no such inventory
    ELSE LET change == check_user_access(user, "Inventory", "change",
                                         ObjDataArgs(data.inventory, NoneData))
         IN  IF ~Truthy(change)
             THEN (IF IsRaise(change) THEN change ELSE Ret(FALSE))
             ELSE IF validation_info.free_instances > 0
             THEN Ret(TRUE)
             ELSE RaiseLicense(validation_info.available_instances)

HostAccess_can_change(user, obj, data) ==
    IF DataTruthy(data)
       /\ hosts[obj].inventory # (IF Has(data, "inventory") THEN data.inventory ELSE None)
    THEN Raise("PermissionDenied:host_inventory")
    ELSE check_user_access(user, "Inventory", "change",
                           ObjDataArgs(hosts[obj].inventory, NoneData))


(* ---------------------------- GroupAccess ----------------------------- *)
GroupAccess_get_queryset(user) ==
    LET qs == {g \in Groups : groups[g].active}
        inventories_qs == get_user_queryset(user, "Inventory")
    IN  QS("Group", {g \in qs : groups[g].inventory \in inventories_qs.pks})

GroupAccess_can_read(user, obj) ==
    check_user_access(user, "Inventory", "read", ObjArgs(groups[obj].inventory))

GroupAccess_can_add(user, data) ==
    IF ~DataTruthy(data) \/ ~Has(data, "inventory")
    THEN Ret(FALSE)
    ELSE IF data.inventory \notin Inventories
    THEN Raise("ParseError")   \* get_object_or_400 finds no such inventory
    ELSE check_user_access(user, "Inventory", "change",
                           ObjDataArgs(data.inventory, NoneData))

GroupAccess_can_change(user, obj, data) ==
    check_user_access(user, "Inventory", "change",
                      ObjDataArgs(groups[obj].inventory, NoneData))

(* -------------------------- CredentialAccess -------------------------- *)
CredentialAccess_get_queryset(user) ==
    LET qs == {c \in Credentials : credentials[c].active}
        orgs_as_admin == admin_of_organizations(user)
    IN  IF users[user].is_superuser
        THEN QS("Credential", qs)
        ELSE QS("Credential",
                {c \in qs :
                    LET cu == credentials[c].user
                        ct == credentials[c].team
                    IN  \/ cu = user
                        \/ cu # None /\ user_organizations(cu) \cap orgs_as_admin # {}
                        \/ cu # None /\ admin_of_organizations(cu) \cap orgs_as_admin # {}
                        \/ ct # None /\ teams[ct].organization \in orgs_as_admin
                        \/ ct # None /\ user \in teams[ct].users})

CredentialAccess_can_change(user, obj, data) ==
    LET cu == credentials[obj].user
        ct == credentials[obj].team
    IN  IF users[user].is_superuser THEN Ret(TRUE)
        ELSE IF user = cu THEN Ret(TRUE)
        ELSE IF cu # None /\ (\E o \in user_organizations(cu) :
                                  user \in organizations[o].admins)
        THEN Ret(TRUE)
        ELSE IF ct # None /\ user \in organizations[teams[ct].organization].admins
        THEN Ret(TRUE)
        ELSE Ret(FALSE)

CredentialAccess_can_read(user, obj) ==
    CredentialAccess_can_change(user, obj, NoneData)

CredentialAccess_can_add(user, data) ==
    IF users[user].is_superuser THEN Ret(TRUE)
    ELSE IF ~data.isdict THEN Raise("TypeError")   \* 'user' in None
    ELSE IF Has(data, "user")
    THEN (IF data.user \notin Users
          THEN Raise("DoesNotExist")
          ELSE check_user_access(user, "User", "change",
                                 ObjDataArgs(data.user, NoneData)))
    ELSE IF Has(data, "team")
    THEN (IF data.team \notin Teams
          THEN Raise("DoesNotExist")
          ELSE check_user_access(user, "Team", "change",
                                 ObjDataArgs(data.team, NoneData)))
    ELSE Ret(FALSE)   \* falls off the end: None

CredentialAccess_can_delete(user, obj) ==
    IF credentials[obj].user = None /\ credentials[obj].team = None
    THEN Ret(TRUE)
    ELSE CredentialAccess_can_change(user, obj, NoneData)

(* ----------------------------- TeamAccess ----------------------------- *)
TeamAccess_get_queryset(user) ==
    LET qs == {t \in Teams : teams[t].active}
    IN  IF users[user].is_superuser
        THEN QS("Team", qs)
        ELSE QS("Team",
                {t \in qs : user \in organizations[teams[t].organization].admins
                            \/ user \in teams[t].users})

TeamAccess_can_add(user, data) ==
    IF users[user].is_superuser THEN Ret(TRUE)
    ELSE IF Cardinality({o \in Orgs : user \in organizations[o].admins}) # 0
    THEN Ret(TRUE)
    ELSE Ret(FALSE)

TeamAccess_can_change(user, obj, data) ==
    IF users[user].is_superuser THEN Ret(TRUE)
    ELSE IF user \in organizations[teams[obj].organization].admins THEN Ret(TRUE)
    ELSE Ret(FALSE)

TeamAccess_can_read(user, obj) ==
    LET change == TeamAccess_can_change(user, obj, NoneData)
    IN  IF Truthy(change) THEN Ret(TRUE)
        ELSE IF user \in teams[obj].users THEN Ret(TRUE)
        ELSE Ret(FALSE)

TeamAccess_can_delete(user, obj) ==
    TeamAccess_can_change(user, obj, NoneData)

(* ---------------------------- ProjectAccess --------------------------- *)
ProjectAccess_get_queryset(user) ==
    LET my_teams == {t \in Teams : user \in teams[t].users}
        my_orgs == {o \in Orgs : user \in organizations[o].admins}
    IN  IF users[user].is_superuser
        THEN QS("Project", Projects)
        ELSE QS("Project",
                {p \in Projects : projects[p].teams \cap my_teams # {}}
                \cup {p \in Projects : projects[p].organizations \cap my_orgs # {}})

\* The loop body reads the name "project", which nothing binds: the first
\* iteration raises NameError.
ProjectAccess_can_change(user, obj, data) ==
    LET orgs == {o \in Orgs : user \in organizations[o].admins
                              /\ o \in projects[obj].organizations}
    IN  IF users[user].is_superuser THEN Ret(TRUE)
        ELSE IF projects[obj].created_by = user THEN Ret(TRUE)
        ELSE IF orgs # {} THEN Raise("NameError")
        ELSE Ret(FALSE)

ProjectAccess_can_read(user, obj) ==
    LET change == ProjectAccess_can_change(user, obj, NoneData)
    IN  IF IsRaise(change) THEN change
        ELSE IF change.val THEN Ret(TRUE)
        ELSE Ret(FALSE)

ProjectAccess_can_delete(user, obj) ==
    ProjectAccess_can_change(user, obj, NoneData)

(* -------------------------- PermissionAccess -------------------------- *)
PermissionAccess_get_queryset(user) ==
    QS("Permission", Permissions)

\* The team branch filters the organization's admins by the acting user.
PermissionAccess_can_change(user, obj, data) ==
    LET pu == permissions[obj].user
        pt == permissions[obj].team
    IN  IF users[user].is_superuser THEN Ret(TRUE)
        ELSE IF pu # None /\ (\E o \in user_organizations(pu) :
                                  user \in organizations[o].admins)
        THEN Ret(TRUE)
        ELSE IF pt # None /\ user \in organizations[teams[pt].organization].admins
        THEN Ret(TRUE)
        ELSE Ret(FALSE)

PermissionAccess_can_read(user, obj) ==
    LET pu == permissions[obj].user
        pt == permissions[obj].team
    IN  IF pu # None /\ pu = user THEN Ret(TRUE)
        ELSE IF pt # None /\ user \in teams[pt].users THEN Ret(TRUE)
        ELSE PermissionAccess_can_change(user, obj, NoneData)

PermissionAccess_can_delete(user, obj) ==
    PermissionAccess_can_change(user, obj, NoneData)

(* -------------------------- JobTemplateAccess ------------------------- *)
JobTemplateAccess_get_queryset(user) ==
    IF users[user].is_superuser
    THEN QS("JobTemplate", JobTemplates)
    ELSE QS("JobTemplate",
            {j \in JobTemplates :
                /\ job_templates[j].active
                /\ LET p == job_templates[j].project
                   IN  \/ \E o \in projects[p].organizations :
                              user \in organizations[o].admins
                       \/ \E t \in projects[p].teams : user \in teams[t].users})

\* The permissions of the loops over user_permissions and team_permissions.
launch_permissions(user, inventory, project) ==
    {p \in Permissions :
        /\ permissions[p].inventory = inventory
        /\ permissions[p].project = project
        /\ \/ permissions[p].user = user
           \/ permissions[p].team # None /\ user \in teams[permissions[p].team].users}

JobTemplateAccess_can_add(user, data) ==
    IF users[user].is_superuser THEN Ret(TRUE)
    ELSE IF ~DataTruthy(data) \/ Has(data, "_method") THEN Ret(TRUE)
    ELSE IF ~Has(data, "project") THEN Raise("KeyError")
    ELSE IF data.project \notin Projects THEN Raise("DoesNotExist")
    ELSE IF ~Has(data, "inventory") THEN Raise("KeyError")
    ELSE IF data.inventory \notin Inventories THEN Raise("DoesNotExist")
    ELSE IF \E o \in projects[data.project].organizations :
                user \in organizations[o].admins
    THEN Ret(TRUE)
    ELSE IF ~Has(data, "job_type") THEN Raise("KeyError")
    ELSE LET has_launch_permission ==
                 \E p \in launch_permissions(user, data.inventory, data.project) :
                     \/ data.job_type = PERM_INVENTORY_CHECK
                     \/ /\ data.job_type = PERM_INVENTORY_DEPLOY
                        /\ permissions[p].permission_type = PERM_INVENTORY_DEPLOY
             has_credential ==
                 LET ct == credentials[data.credential].team
                     cu == credentials[data.credential].user
                 IN  \/ ct # None /\ user \in teams[ct].users
                     \/ cu # None /\ cu = user
         IN  IF ~has_launch_permission THEN Ret(FALSE)
             ELSE IF Has(data, "credential") /\ data.credential \notin Credentials
             THEN Raise("DoesNotExist")
             ELSE IF Has(data, "credential") /\ ~has_credential THEN Ret(FALSE)
             ELSE IF \E t \in projects[data.project].teams : user \in teams[t].users
             THEN Ret(FALSE)
             ELSE Ret(TRUE)

JobTemplateAccess_can_read(user, obj) ==
    JobTemplateAccess_can_add(user,
        [EmptyDict EXCEPT !.keys = {"inventory", "project", "job_type"},
                          !.inventory = job_templates[obj].inventory,
                          !.project = job_templates[obj].project,
                          !.job_type = job_templates[obj].job_type])

JobTemplateAccess_can_change(user, obj, data) ==
    Ret(users[user].is_superuser)

(* ------------------------------ JobAccess ----------------------------- *)
JobAccess_get_queryset(user) ==
    QS("Job", Jobs)

JobAccess_can_change_mut_anystatus(user, obj, data) ==
    Ret(users[user].is_superuser)

JobAccess_can_change(user, obj, data) ==
    Ret(users[user].is_superuser /\ jobs[obj].status = "new")

JobAccess_can_start(user, obj) ==
    Ret(FALSE)

JobAccess_can_cancel(user, obj) ==
    Ret(FALSE)

(* --------------- JobHostSummaryAccess, JobEventAccess ----------------- *)
JobHostSummaryAccess_get_queryset(user) ==
    QS("JobHostSummary", JobHostSummaries)

JobEventAccess_get_queryset(user) ==
    QS("JobEvent", JobEvents)


(* ----------------------------- BaseAccess ----------------------------- *)
BaseAccess_can_read(user, obj) == Ret(users[user].is_superuser)
BaseAccess_can_add(user, data) == Ret(users[user].is_superuser)
BaseAccess_can_change(user, obj, data) == Ret(users[user].is_superuser)
BaseAccess_can_delete(user, obj) == Ret(users[user].is_superuser)

\* self.can_change(obj, data) called from a method BaseAccess defines: the
\* override of the instance's class, or BaseAccess's own.
self_can_change(cls, user, obj, data) ==
    CASE cls = "UserAccess" -> UserAccess_can_change(user, obj, data)
      [] cls = "OrganizationAccess" -> OrganizationAccess_can_change(user, obj, data)
      [] cls = "InventoryAccess" -> InventoryAccess_can_change(user, obj, data)
      [] cls = "HostAccess" -> HostAccess_can_change(user, obj, data)
      [] cls = "GroupAccess" -> GroupAccess_can_change(user, obj, data)
      [] cls = "CredentialAccess" -> CredentialAccess_can_change(user, obj, data)
      [] cls = "TeamAccess" -> TeamAccess_can_change(user, obj, data)
      [] cls = "ProjectAccess" -> ProjectAccess_can_change(user, obj, data)
      [] cls = "PermissionAccess" -> PermissionAccess_can_change(user, obj, data)
      [] cls = "JobTemplateAccess" -> JobTemplateAccess_can_change(user, obj, data)
      [] cls = "JobAccess" -> JobAccess_can_change(user, obj, data)
      [] OTHER -> BaseAccess_can_change(user, obj, data)

BaseAccess_can_write(cls, user, obj, data) ==
    self_can_change(cls, user, obj, data)

BaseAccess_can_admin(cls, user, obj, data) ==
    self_can_change(cls, user, obj, data)

BaseAccess_can_attach(cls, user, a) ==
    IF a.skip
    THEN self_can_change(cls, user, a.obj, NoneData)
    ELSE AndThen(self_can_change(cls, user, a.obj, NoneData),
                 check_user_access(user, a.sub_model, "read", ObjArgs(a.sub_obj)))

BaseAccess_can_unattach(cls, user, a) ==
    self_can_change(cls, user, a.obj, NoneData)

GroupAccess_can_attach_mut_nocycle(user, a) ==
    LET base == BaseAccess_can_attach("GroupAccess", user, a)
    IN  IF ~Truthy(base)
        THEN (IF IsRaise(base) THEN base ELSE Ret(FALSE))
        ELSE IF a.sub_model = "Group" /\ a.obj = a.sub_obj
        THEN Ret(FALSE)
        ELSE Ret(TRUE)

GroupAccess_can_attach(user, a) ==
    LET base == BaseAccess_can_attach("GroupAccess", user, a)
        parent_pks == all_parents(a.obj) \cup {a.obj}
        child_pks == all_children(a.sub_obj) \cup {a.sub_obj}
    IN  IF ~Truthy(base)
        THEN (IF IsRaise(base) THEN base ELSE Ret(FALSE))
        ELSE IF a.sub_model = "Group" /\ parent_pks \cap child_pks # {}
        THEN Ret(FALSE)
        ELSE Ret(TRUE)

(* --------------------- getattr(access_instance, ...) ------------------ *)
BaseActions == {"read", "add", "change", "write", "admin", "delete", "attach", "unattach"}

\* Whether getattr(access_instance, 'can_%s' % action, None) finds a method.
HasMethod(cls, action) ==
    \/ action \in BaseActions
    \/ cls = "JobAccess" /\ action \in {"start", "cancel"}

\* access_method(*args, **kwargs): the method the class resolves the name to.
Invoke(cls, user, action, a) ==
    CASE action = "read" ->
            (CASE cls = "UserAccess" -> UserAccess_can_read(user, a.obj)
               [] cls = "OrganizationAccess" -> OrganizationAccess_can_read(user, a.obj)
               [] cls = "InventoryAccess" -> InventoryAccess_can_read(user, a.obj)
               [] cls = "HostAccess" -> HostAccess_can_read(user, a.obj)
               [] cls = "GroupAccess" -> GroupAccess_can_read(user, a.obj)
               [] cls = "CredentialAccess" -> CredentialAccess_can_read(user, a.obj)
               [] cls = "TeamAccess" -> TeamAccess_can_read(user, a.obj)
               [] cls = "ProjectAccess" -> ProjectAccess_can_read(user, a.obj)
               [] cls = "PermissionAccess" -> PermissionAccess_can_read(user, a.obj)
               [] cls = "JobTemplateAccess" -> JobTemplateAccess_can_read(user, a.obj)
               [] OTHER -> BaseAccess_can_read(user, a.obj))
      [] action = "add" ->
            (CASE cls = "UserAccess" -> UserAccess_can_add(user, a.data)
               [] cls = "InventoryAccess" -> InventoryAccess_can_add(user, a.data)
               [] cls = "HostAccess" -> HostAccess_can_add(user, a.data)
               [] cls = "GroupAccess" -> GroupAccess_can_add(user, a.data)
               [] cls = "CredentialAccess" -> CredentialAccess_can_add(user, a.data)
               [] cls = "TeamAccess" -> TeamAccess_can_add(user, a.data)
               [] cls = "JobTemplateAccess" -> JobTemplateAccess_can_add(user, a.data)
               [] OTHER -> BaseAccess_can_add(user, a.data))
      [] action = "change" -> self_can_change(cls, user, a.obj, a.data)
      [] action = "write" -> BaseAccess_can_write(cls, user, a.obj, a.data)
      [] action = "admin" ->
            (CASE cls = "UserAccess" -> UserAccess_can_admin(user, a.obj, a.data)
               [] cls = "InventoryAccess" -> InventoryAccess_can_admin(user, a.obj, a.data)
               [] OTHER -> BaseAccess_can_admin(cls, user, a.obj, a.data))
      [] action = "delete" ->
            (CASE cls = "UserAccess" -> UserAccess_can_delete(user, a.obj)
               [] cls = "OrganizationAccess" -> OrganizationAccess_can_delete(user, a.obj)
               [] cls = "InventoryAccess" -> InventoryAccess_can_delete(user, a.obj)
               [] cls = "CredentialAccess" -> CredentialAccess_can_delete(user, a.obj)
               [] cls = "TeamAccess" -> TeamAccess_can_delete(user, a.obj)
               [] cls = "ProjectAccess" -> ProjectAccess_can_delete(user, a.obj)
               [] cls = "PermissionAccess" -> PermissionAccess_can_delete(user, a.obj)
               [] OTHER -> BaseAccess_can_delete(user, a.obj))
      [] action = "attach" ->
            (CASE cls = "GroupAccess" -> GroupAccess_can_attach(user, a)
               [] OTHER -> BaseAccess_can_attach(cls, user, a))
      [] action = "unattach" -> BaseAccess_can_unattach(cls, user, a)
      [] action = "start" -> JobAccess_can_start(user, a.obj)
      [] action = "cancel" -> JobAccess_can_cancel(user, a.obj)

\* access_instance.get_queryset(): every access class overrides it.
GetQueryset(cls, user) ==
    CASE cls = "UserAccess" -> UserAccess_get_queryset(user)
      [] cls = "OrganizationAccess" -> OrganizationAccess_get_queryset(user)
      [] cls = "InventoryAccess" ->
            InventoryAccess_get_queryset(user, PERMISSION_TYPES_ALLOWING_INVENTORY_READ)
      [] cls = "HostAccess" -> HostAccess_get_queryset(user)
      [] cls = "GroupAccess" -> GroupAccess_get_queryset(user)
      [] cls = "CredentialAccess" -> CredentialAccess_get_queryset(user)
      [] cls = "TeamAccess" -> TeamAccess_get_queryset(user)
      [] cls = "ProjectAccess" -> ProjectAccess_get_queryset(user)
      [] cls = "PermissionAccess" -> PermissionAccess_get_queryset(user)
      [] cls = "JobTemplateAccess" -> JobTemplateAccess_get_queryset(user)
      [] cls = "JobAccess" -> JobAccess_get_queryset(user)
      [] cls = "JobHostSummaryAccess" -> JobHostSummaryAccess_get_queryset(user)
      [] cls = "JobEventAccess" -> JobEventAccess_get_queryset(user)

(* ----------------------------- dispatcher ----------------------------- *)
\* The loop of check_user_access from the i-th registered class on.
RECURSIVE AccessLoop(_, _, _, _, _)
AccessLoop_mut_firstdecides(classes, i, user, action, a) ==
    IF i > Len(classes)
    THEN Ret(FALSE)
    ELSE IF ~HasMethod(classes[i], action)
    THEN AccessLoop(classes, i + 1, user, action, a)
    ELSE Invoke(classes[i], user, action, a)

AccessLoop(classes, i, user, action, a) ==
    IF i > Len(classes)
    THEN Ret(FALSE)
    ELSE IF ~HasMethod(classes[i], action)
    THEN AccessLoop(classes, i + 1, user, action, a)
    ELSE LET r == Invoke(classes[i], user, action, a)
         IN  IF IsRaise(r) \/ r.val
             THEN r
             ELSE AccessLoop(classes, i + 1, user, action, a)

check_user_access(user, model_class, action, a) ==
    AccessLoop(access_registry[model_class], 1, user, action, a)

\* The filter loop of get_user_queryset from the i-th queryset on.
RECURSIVE FilterLoop(_, _, _)
FilterLoop_mut_union(querysets, i, pks) ==
    IF i > Len(querysets)
    THEN pks
    ELSE FilterLoop(querysets, i + 1,
                    IF i = 1 THEN querysets[i].pks \cap pks ELSE pks \cup querysets[i].pks)

FilterLoop(querysets, i, pks) ==
    IF i > Len(querysets)
    THEN pks
    ELSE FilterLoop(querysets, i + 1, pks \cap querysets[i].pks)

get_user_queryset(user, model_class) ==
    LET classes == access_registry[model_class]
        querysets == [i \in 1..Len(classes) |-> GetQueryset(classes[i], user)]
    IN  IF Len(querysets) = 0
        THEN QS(model_class, {})
        ELSE IF Len(querysets) = 1
        THEN querysets[1]
        ELSE QS(model_class, FilterLoop(querysets, 1, Objects(model_class)))

register_access(registry, model_class, access_class) ==
    [registry EXCEPT ![model_class] = Append(@, access_class)]

\* The registry once the module is imported: the twelve register_access
\* calls at its end (JobEventAccess is not registered).
EmptyRegistry == [m \in Models |-> <<>>]

ImportedRegistry ==
    LET r1 == register_access(EmptyRegistry, "User", "UserAccess")
        r2 == register_access(r1, "Organization", "OrganizationAccess")
        r3 == register_access(r2, "Inventory", "InventoryAccess")
        r4 == register_access(r3, "Host", "HostAccess")
        r5 == register_access(r4, "Group", "GroupAccess")
        r6 == register_access(r5, "Credential", "CredentialAccess")
        r7 == register_access(r6, "Team", "TeamAccess")
        r8 == register_access(r7, "Project", "ProjectAccess")
        r9 == register_access(r8, "Permission", "PermissionAccess")
        r10 == register_access(r9, "JobTemplate", "JobTemplateAccess")
        r11 == register_access(r10, "Job", "JobAccess")
    IN  register_access(r11, "JobHostSummary", "JobHostSummaryAccess")


(* ------------------------- the calls in progress ---------------------- *)
Call(fn, user, model, action, a) ==
    [fn |-> fn, user |-> user, model |-> model, action |-> action, args |-> a]

Idle == Call("idle", None, "", "", ObjArgs(None))
NoResult == [exc |-> "idle", val |-> FALSE, instances |-> 0]
NoQuerySet == QS("", {})

Payload(keys, organization, inventory, project, job_type, credential, user, team) ==
    [isdict |-> TRUE, keys |-> keys, organization |-> organization,
     inventory |-> inventory, project |-> project, job_type |-> job_type,
     credential |-> credential, user |-> user, team |-> team]

InventoryPayload(i) == Payload({"inventory"}, None, i, None, "", None, None, None)
OrganizationPayload(o) == Payload({"organization"}, o, None, None, "", None, None, None)
NamePayload == Payload({"name"}, None, None, None, "", None, None, None)
UserPayload(u) == Payload({"user"}, None, None, None, "", None, u, None)
TeamPayload(t) == Payload({"team"}, None, None, None, "", None, None, t)
JobTemplatePayload(i, p, jt) ==
    Payload({"inventory", "project", "job_type"}, None, i, p, jt, None, None, None)

\* One call of check_user_access by the surrounding views.
Authorize(user, model_class, action, a) ==
    /\ call = Idle
    /\ call' = Call("check_user_access", user, model_class, action, a)
    /\ result' = check_user_access(user, model_class, action, a)
    /\ UNCHANGED <<store, access_registry, visible>>

\* One call of get_user_queryset.
VisibleSet(user, model_class) ==
    /\ call = Idle
    /\ call' = Call("get_user_queryset", user, model_class, "", ObjArgs(None))
    /\ visible' = get_user_queryset(user, model_class)
    /\ UNCHANGED <<store, access_registry, result>>

\* The caller takes the answer and does nothing to the store.
Return ==
    /\ call # Idle
    /\ call' = Idle
    /\ result' = NoResult
    /\ visible' = NoQuerySet
    /\ UNCHANGED <<store, access_registry>>

(* ------------------------------ a store ------------------------------- *)
\* User 1 is a superuser; user 2 administers organization 1; user 3 is a
\* member of organization 1 and of team 1.
Base ==
    [users |->
         [u \in Users |-> [is_superuser |-> (u = 1), is_active |-> TRUE]],
     organizations |->
         [o \in Orgs |-> IF o = 1 THEN [admins |-> {2}, users |-> {3}]
                                  ELSE [admins |-> {}, users |-> {}]],
     teams |->
         [t \in Teams |-> IF t = 1 THEN [organization |-> 1, users |-> {3}, active |-> TRUE]
                                   ELSE [organization |-> 2, users |-> {}, active |-> TRUE]],
     inventories |->
         [i \in Inventories |-> [organization |-> i, active |-> TRUE]],
     hosts |->
         [h \in Hosts |-> [inventory |-> h, active |-> TRUE]],
     groups |->
         [g \in Groups |-> [inventory |-> 1, active |-> TRUE, parents |-> {}]],
     credentials |->
         [c \in Credentials |->
             IF c = 1 THEN [user |-> 3, team |-> None, active |-> TRUE]
             ELSE IF c = 2 THEN [user |-> None, team |-> 1, active |-> TRUE]
             ELSE [user |-> None, team |-> None, active |-> TRUE]],
     projects |->
         [p \in Projects |->
             IF p = 1 THEN [created_by |-> 3, organizations |-> {1}, teams |-> {1}]
                      ELSE [created_by |-> None, organizations |-> {2}, teams |-> {}]],
     permissions |->
         [p \in Permissions |->
             IF p = 1
             THEN [user |-> 3, team |-> None, inventory |-> 1, project |-> 1,
                   permission_type |-> PERM_INVENTORY_READ]
             ELSE [user |-> None, team |-> 1, inventory |-> 1, project |-> 1,
                   permission_type |-> PERM_INVENTORY_DEPLOY]],
     job_templates |->
         [j \in JobTemplates |->
             IF j = 1
             THEN [inventory |-> 1, project |-> 1, job_type |-> PERM_INVENTORY_CHECK,
                   active |-> TRUE]
             ELSE [inventory |-> 2, project |-> 2, job_type |-> PERM_INVENTORY_DEPLOY,
                   active |-> TRUE]],
     jobs |->
         [j \in Jobs |-> [status |-> IF j = 1 THEN "new" ELSE "running"]]]

\* What the license file may say: the instances still free and the instances
\* the license allows.
Licenses == [free_instances : 0..MaxFree, available_instances : MaxFree..(MaxFree + 1)]

NoCall ==
    /\ call = Idle
    /\ result = NoResult
    /\ visible = NoQuerySet


(* ====================================================================== *)
(* Spec: every access class under the imported registry.                  *)
(* ====================================================================== *)
AllActions == BaseActions \cup {"start", "cancel", "launch"}

GeneralPayloads ==
    {NoneData, NamePayload, OrganizationPayload(1), UserPayload(3), TeamPayload(1),
     JobTemplatePayload(1, 1, PERM_INVENTORY_CHECK)}
    \cup {InventoryPayload(i) : i \in Inventories}

AttachSubModels == {"User", "Host", "Group", "JobEvent"}

\* The argument lists a view passes for an action on a model.
CallArgs(model_class, action) ==
    CASE action \in {"read", "delete", "start", "cancel", "launch"} ->
            {ObjArgs(o) : o \in Objects(model_class)}
      [] action = "add" -> {DataArgs(d) : d \in GeneralPayloads}
      [] action \in {"change", "write", "admin"} ->
            {ObjDataArgs(o, d) : o \in Objects(model_class), d \in GeneralPayloads}
      [] action = "attach" ->
            UNION {{Args(o, sm, so, NoneData, skip) :
                        o \in Objects(model_class), so \in Objects(sm),
                        skip \in BOOLEAN} : sm \in AttachSubModels}
      [] action = "unattach" ->
            {Args(o, "User", 1, NoneData, FALSE) : o \in Objects(model_class)}

Init ==
    /\ \E s2 \in BOOLEAN, a2 \in BOOLEAN :
          users = [Base.users EXCEPT ![2] = [is_superuser |-> s2, is_active |-> a2]]
    /\ organizations = Base.organizations
    /\ teams = Base.teams
    /\ \E ia \in BOOLEAN :
          inventories = [Base.inventories EXCEPT ![1].active = ia]
    /\ hosts = Base.hosts
    /\ groups = [Base.groups EXCEPT ![2].parents = {1}]
    /\ credentials = Base.credentials
    /\ projects = Base.projects
    /\ permissions = Base.permissions
    /\ job_templates = Base.job_templates
    /\ jobs = Base.jobs
    /\ license \in {l \in Licenses : l.available_instances = MaxFree}
    /\ argv_test \in BOOLEAN
    /\ access_registry = ImportedRegistry
    /\ NoCall

AuthorizeAny ==
    /\ call = Idle
    /\ \E user \in Users, model_class \in Models, action \in AllActions :
        \E a \in CallArgs(model_class, action) :
            Authorize(user, model_class, action, a)

VisibleSetAny ==
    /\ call = Idle
    /\ \E user \in Users, model_class \in Models : VisibleSet(user, model_class)

Next ==
    \/ AuthorizeAny
    \/ VisibleSetAny
    \/ Return

Spec == Init /\ [][Next]_vars


(* ---------------------------------------------------------------------- *)
(* Superusers                                                             *)
(* ---------------------------------------------------------------------- *)
Registered(model_class) == access_registry[model_class] # <<>>

\* The actions a registered model's access classes have a method for.
ActionsOf(model_class) ==
    {action \in AllActions :
        \E i \in 1..Len(access_registry[model_class]) :
            HasMethod(access_registry[model_class][i], action)}

SuperuserCall ==
    /\ call.fn = "check_user_access"
    /\ users[call.user].is_superuser
    /\ Registered(call.model)
    /\ call.action \in ActionsOf(call.model)

ActiveSuperusers == {u \in Users : users[u].is_active /\ users[u].is_superuser}

GroupEdges == {<<p, c>> \in Groups \X Groups : p \in groups[c].parents}

\* A path of at most n parent-to-child edges leads from a to b.
RECURSIVE PathWithin(_, _, _)
PathWithin(a, b, n) ==
    /\ n > 0
    /\ \/ <<a, b>> \in GroupEdges
       \/ \E m \in Groups : <<a, m>> \in GroupEdges /\ PathWithin(m, b, n - 1)

IsDescendant(g, of) == PathWithin(of, g, NumGroups)

\* What a superuser is refused: the change of an object ...
SuperChangeRefused(model_class, obj, data) ==
    \/ model_class = "Inventory" /\ ~inventories[obj].active
    \/ model_class = "Host"
       /\ \/ ~inventories[hosts[obj].inventory].active
          \/ DataTruthy(data)
             /\ (~Has(data, "inventory") \/ data.inventory # hosts[obj].inventory)
    \/ model_class = "Group" /\ ~inventories[groups[obj].inventory].active
    \/ model_class = "Job" /\ jobs[obj].status # "new"

\* ... the read of an object ...
SuperReadRefused(model_class, obj) ==
    \/ ~Registered(model_class)
    \/ model_class = "Inventory" /\ ~inventories[obj].active
    \/ model_class = "Host" /\ ~inventories[hosts[obj].inventory].active
    \/ model_class = "Group" /\ ~inventories[groups[obj].inventory].active

\* ... and every refusal, by action.
SuperRefused ==
    LET m == call.model
        a == call.args
    IN  CASE call.action = "read" -> SuperReadRefused(m, a.obj)
          [] call.action = "add" ->
                /\ m \in {"Host", "Group"}
                /\ \/ ~Has(a.data, "inventory")
                   \/ ~inventories[a.data.inventory].active
                   \/ m = "Host" /\ ~argv_test /\ license.free_instances <= 0
          [] call.action \in {"change", "write", "admin"} ->
                SuperChangeRefused(m, a.obj, a.data)
          [] call.action = "delete" ->
                \/ m = "Inventory" /\ ~inventories[a.obj].active
                \/ m = "User"
                   /\ \/ a.obj = call.user
                      \/ users[a.obj].is_superuser /\ Cardinality(ActiveSuperusers) = 1
          [] call.action = "unattach" -> SuperChangeRefused(m, a.obj, NoneData)
          [] call.action = "attach" ->
                \/ SuperChangeRefused(m, a.obj, NoneData)
                \/ ~a.skip /\ SuperReadRefused(a.sub_model, a.sub_obj)
                \/ /\ m = "Group"
                   /\ a.sub_model = "Group"
                   /\ (a.obj = a.sub_obj \/ IsDescendant(a.obj, a.sub_obj))
          [] call.action \in {"start", "cancel"} -> TRUE

InitGroup ==
    /\ users = Base.users
    /\ organizations = Base.organizations
    /\ teams = Base.teams
    /\ inventories = Base.inventories
    /\ hosts = Base.hosts
    /\ groups = Base.groups
    /\ credentials = Base.credentials
    /\ projects = Base.projects
    /\ permissions = Base.permissions
    /\ job_templates = Base.job_templates
    /\ jobs = Base.jobs
    /\ license = [free_instances |-> MaxFree, available_instances |-> MaxFree]
    /\ argv_test = FALSE
    /\ access_registry = ImportedRegistry
    /\ NoCall

AuthorizeGroupAttach ==
    /\ call = Idle
    /\ \E user \in Users, obj \in Groups, sub_obj \in Groups, skip \in BOOLEAN :
          Authorize(user, "Group", "attach", Args(obj, "Group", sub_obj, NoneData, skip))

AuthorizeGroupUnattach ==
    /\ call = Idle
    /\ \E user \in Users, obj \in Groups, sub_obj \in Groups :
          Authorize(user, "Group", "unattach",
                    Args(obj, "Group", sub_obj, NoneData, FALSE))

\* The view, allowed, adds sub_obj to obj's children.
ApplyGroupAttach ==
    /\ call.fn = "check_user_access"
    /\ call.model = "Group" /\ call.action = "attach"
    /\ Truthy(result)
    /\ groups' = [groups EXCEPT ![call.args.sub_obj].parents = @ \cup {call.args.obj}]
    /\ call' = Idle /\ result' = NoResult
    /\ UNCHANGED <<users, organizations, teams, inventories, hosts, credentials,
                   projects, permissions, job_templates, jobs, license, argv_test,
                   access_registry, visible>>

\* The view, allowed, removes sub_obj from obj's children.
ApplyGroupUnattach ==
    /\ call.fn = "check_user_access"
    /\ call.model = "Group" /\ call.action = "unattach"
    /\ Truthy(result)
    /\ groups' = [groups EXCEPT ![call.args.sub_obj].parents = @ \ {call.args.obj}]
    /\ call' = Idle /\ result' = NoResult
    /\ UNCHANGED <<users, organizations, teams, inventories, hosts, credentials,
                   projects, permissions, job_templates, jobs, license, argv_test,
                   access_registry, visible>>

NextGroup ==
    \/ AuthorizeGroupAttach
    \/ AuthorizeGroupUnattach
    \/ ApplyGroupAttach
    \/ ApplyGroupUnattach
    \/ Return

SpecGroup == InitGroup /\ [][NextGroup]_vars

Acyclic == \A g \in Groups : ~IsDescendant(g, g)

GroupAttachCall ==
    /\ call.fn = "check_user_access"
    /\ call.model = "Group"
    /\ call.action = "attach"
    /\ call.args.sub_model = "Group"

\* C2: the group graph stays acyclic under the attaches check_user_access
\* allowed; attaching B under A is refused when A is B or A is a descendant
\* of B, and allowed otherwise to a user who can change A and read B.
C2_AttachKeepsAcyclic ==
    /\ Acyclic
    /\ GroupAttachCall =>
          LET A == call.args.obj
              B == call.args.sub_obj
              closes == A = B \/ IsDescendant(A, B)
          IN  /\ closes => result = Ret(FALSE)
              /\ (/\ ~closes
                  /\ Truthy(check_user_access(call.user, "Group", "change",
                                              ObjDataArgs(A, NoneData)))
                  /\ Truthy(check_user_access(call.user, "Group", "read", ObjArgs(B))))
                 => result = Ret(TRUE)

\* A was attached above B, and the attach of A under B is refused to a user
\* who can change B and read A.
C2_Witness ==
    /\ GroupAttachCall
    /\ <<call.args.sub_obj, call.args.obj>> \in GroupEdges
    /\ Truthy(check_user_access(call.user, "Group", "change",
                                ObjDataArgs(call.args.obj, NoneData)))
    /\ Truthy(check_user_access(call.user, "Group", "read", ObjArgs(call.args.sub_obj)))
    /\ result = Ret(FALSE)


(* ====================================================================== *)
(* SpecInventory: the permissions users 3 holds, directly and through     *)
(* team 1, on the inventories.                                            *)
(* ====================================================================== *)
\* Permission 1 is granted to user 3, permission 2 to team 1.
GrantedPermissions ==
    {f \in [Permissions ->
                [user : {None, 3}, team : {None, 1}, inventory : Inventories,
                 project : {1}, permission_type : PERMISSION_TYPES]] :
        /\ f[1].user = 3 /\ f[1].team = None
        /\ \A p \in Permissions \ {1} : f[p].user = None /\ f[p].team = 1}

InitInventory ==
    /\ users = Base.users
    /\ organizations = Base.organizations
    /\ teams = Base.teams
    /\ \E ia \in BOOLEAN :
          inventories = [Base.inventories EXCEPT ![1].active = ia]
    /\ hosts = Base.hosts
    /\ groups = Base.groups
    /\ credentials = Base.credentials
    /\ projects = Base.projects
    /\ permissions \in GrantedPermissions
    /\ job_templates = Base.job_templates
    /\ jobs = Base.jobs
    /\ license = [free_instances |-> MaxFree, available_instances |-> MaxFree]
    /\ argv_test = FALSE
    /\ access_registry = ImportedRegistry
    /\ NoCall

AuthorizeInventory ==
    /\ call = Idle
    /\ \E user \in Users, obj \in Inventories,
          action \in {"read", "change", "write", "admin", "delete"},
          data \in {NoneData, OrganizationPayload(1)} :
          Authorize(user, "Inventory", action,
                    IF action \in {"read", "delete"}
                    THEN ObjArgs(obj) ELSE ObjDataArgs(obj, data))

VisibleSetInventory ==
    /\ call = Idle
    /\ \E user \in Users : VisibleSet(user, "Inventory")

NextInventory ==
    \/ AuthorizeInventory
    \/ VisibleSetInventory
    \/ Return

SpecInventory == InitInventory /\ [][NextInventory]_vars

\* The permission types a user holds on an inventory, directly or through a team.
GrantsHeld(user, inventory) ==
    {permissions[p].permission_type :
        p \in {q \in Permissions :
                 /\ permissions[q].inventory = inventory
                 /\ \/ permissions[q].user = user
                    \/ /\ permissions[q].team # None
                       /\ user \in teams[permissions[q].team].users}}

\* A read, write/change or admin check, without payload, of an active
\* inventory by a user who is neither superuser nor admin of its organization.
InventoryGrantCall ==
    /\ call.fn = "check_user_access"
    /\ call.model = "Inventory"
    /\ call.action \in {"read", "change", "write", "admin"}
    /\ call.args.data = NoneData
    /\ ~users[call.user].is_superuser
    /\ call.user \notin organizations[inventories[call.args.obj].organization].admins
    /\ inventories[call.args.obj].active

InitUserDelete ==
    /\ users \in [Users -> [is_superuser : BOOLEAN, is_active : BOOLEAN]]
    /\ organizations = [Base.organizations EXCEPT ![1].users = {1, 3}]
    /\ teams = Base.teams
    /\ inventories = Base.inventories
    /\ hosts = Base.hosts
    /\ groups = Base.groups
    /\ credentials = Base.credentials
    /\ projects = Base.projects
    /\ permissions = Base.permissions
    /\ job_templates = Base.job_templates
    /\ jobs = Base.jobs
    /\ license = [free_instances |-> MaxFree, available_instances |-> MaxFree]
    /\ argv_test = FALSE
    /\ access_registry = ImportedRegistry
    /\ NoCall

AuthorizeUserDelete ==
    /\ call = Idle
    /\ \E user \in Users, obj \in Users :
          Authorize(user, "User", "delete", ObjArgs(obj))

\* The view, allowed, marks the user inactive.
ApplyUserDelete ==
    /\ call.fn = "check_user_access"
    /\ call.model = "User" /\ call.action = "delete"
    /\ Truthy(result)
    /\ users' = [users EXCEPT ![call.args.obj].is_active = FALSE]
    /\ call' = Idle /\ result' = NoResult
    /\ UNCHANGED <<organizations, teams, inventories, hosts, groups, credentials,
                   projects, permissions, job_templates, jobs, license, argv_test,
                   access_registry, visible>>

NextUserDelete ==
    \/ AuthorizeUserDelete
    \/ ApplyUserDelete
    \/ Return

SpecUserDelete == InitUserDelete /\ [][NextUserDelete]_vars

UserDeleteCall ==
    /\ call.fn = "check_user_access"
    /\ call.model = "User"
    /\ call.action = "delete"

UserDeleteGuards ==
    UserDeleteCall =>
        /\ call.args.obj = call.user => result = Ret(FALSE)
        /\ ActiveSuperusers = {call.args.obj} => result = Ret(FALSE)

\* C4: no user, superuser or not, is allowed to delete their own account or
\* the only active superuser; so no deletion the check allowed removes the
\* deleting user, and none empties the set of active superusers.
C4_UserDeleteGuards ==
    /\ []UserDeleteGuards
    /\ [][ApplyUserDelete =>
            /\ call.args.obj # call.user
            /\ (ActiveSuperusers # {} =>
                  {u \in Users : users'[u].is_active /\ users'[u].is_superuser} # {})]_vars

\* The administrator of the organization of the only active superuser asks to
\* delete that superuser and is refused.
C4_Witness ==
    /\ UserDeleteCall
    /\ call.args.obj # call.user
    /\ ActiveSuperusers = {call.args.obj}
    /\ \E o \in user_organizations(call.args.obj) : call.user \in organizations[o].admins
    /\ result = Ret(FALSE)


(* ====================================================================== *)
(* SpecJobTemplate: job templates created by user 3 (a plain user) and    *)
(* user 2 (who administers organization 1), under the permissions user 3  *)
(* holds and the teams of project 1.                                      *)
(* ====================================================================== *)
InitJobTemplate ==
    /\ users = Base.users
    /\ organizations = Base.organizations
    /\ \E members \in SUBSET {3} : teams = [Base.teams EXCEPT ![1].users = members]
    /\ inventories = Base.inventories
    /\ hosts = Base.hosts
    /\ groups = Base.groups
    /\ credentials = Base.credentials
    /\ \E ts \in SUBSET {1} : projects = [Base.projects EXCEPT ![1].teams = ts]
    /\ permissions \in GrantedPermissions
    /\ job_templates = Base.job_templates
    /\ jobs = Base.jobs
    /\ license = [free_instances |-> MaxFree, available_instances |-> MaxFree]
    /\ argv_test = FALSE
    /\ access_registry = ImportedRegistry
    /\ NoCall

JobTemplatePayloads ==
    {Payload(keys, None, i, p, jt, c, None, None) :
        keys \in {{"inventory", "project", "job_type"},
                  {"inventory", "project", "job_type", "credential"}},
        i \in Inventories, p \in Projects,
        jt \in {PERM_INVENTORY_CHECK, PERM_INVENTORY_DEPLOY},
        c \in {1, 2}}

AuthorizeJobTemplateAdd ==
    /\ call = Idle
    /\ \E user \in Users \ {1}, data \in JobTemplatePayloads :
          /\ ("credential" \in data.keys \/ data.credential = 1)
          /\ Authorize(user, "JobTemplate", "add",
                       DataArgs(IF "credential" \in data.keys
                                THEN data ELSE [data EXCEPT !.credential = None]))

AuthorizeJobTemplateRead ==
    /\ call = Idle
    /\ \E user \in Users, obj \in JobTemplates :
          Authorize(user, "JobTemplate", "read", ObjArgs(obj))

VisibleSetJobTemplate ==
    /\ call = Idle
    /\ \E user \in Users : VisibleSet(user, "JobTemplate")

NextJobTemplate ==
    \/ AuthorizeJobTemplateAdd
    \/ AuthorizeJobTemplateRead
    \/ VisibleSetJobTemplate
    \/ Return

SpecJobTemplate == InitJobTemplate /\ [][NextJobTemplate]_vars

\* The permission types a user holds, directly or through a team, on an
\* inventory and project pair.
PairGrantsHeld(user, inventory, project) ==
    {permissions[p].permission_type :
        p \in {q \in Permissions :
                 /\ permissions[q].inventory = inventory
                 /\ permissions[q].project = project
                 /\ \/ permissions[q].user = user
                    \/ /\ permissions[q].team # None
                       /\ user \in teams[permissions[q].team].users}}

\* The creation of a job template, with a payload naming an inventory, a
\* project and a job type and no credential, by a user who is neither
\* superuser nor admin of an organization of the project.
JobTemplateGrantCall ==
    /\ call.fn = "check_user_access"
    /\ call.model = "JobTemplate"
    /\ call.action = "add"
    /\ call.args.data.keys = {"inventory", "project", "job_type"}
    /\ ~users[call.user].is_superuser
    /\ \A o \in projects[call.args.data.project].organizations :
          call.user \notin organizations[o].admins

\* C5: a check job template is created under a read-level grant alone; a
\* deploy one is created exactly under a grant of the deploy level.
C5_JobTypeNeedsGrantLevel ==
    JobTemplateGrantCall =>
        LET data == call.args.data
            held == PairGrantsHeld(call.user, data.inventory, data.project)
        IN  /\ (/\ data.job_type = PERM_INVENTORY_CHECK
                /\ held # {}
                /\ held \subseteq {PERM_INVENTORY_READ, PERM_INVENTORY_CHECK})
               => result = Ret(TRUE)
            /\ data.job_type = PERM_INVENTORY_DEPLOY
               => result = Ret(PERM_INVENTORY_DEPLOY \in held)


(* ====================================================================== *)
(* SpecHost: hosts added and changed under every license and every        *)
(* permission of user 3.                                                  *)
(* ====================================================================== *)
InitHost ==
    /\ users = Base.users
    /\ organizations = Base.organizations
    /\ teams = Base.teams
    /\ inventories = Base.inventories
    /\ hosts = Base.hosts
    /\ groups = Base.groups
    /\ credentials = Base.credentials
    /\ projects = Base.projects
    /\ permissions \in GrantedPermissions
    /\ job_templates = Base.job_templates
    /\ jobs = Base.jobs
    /\ license \in Licenses
    /\ argv_test \in BOOLEAN
    /\ access_registry = ImportedRegistry
    /\ NoCall

HostPayloads == {NoneData, NamePayload} \cup {InventoryPayload(i) : i \in Inventories}

AuthorizeHostAdd ==
    /\ call = Idle
    /\ \E user \in Users, data \in HostPayloads :
          Authorize(user, "Host", "add", DataArgs(data))

AuthorizeHostChange ==
    /\ call = Idle
    /\ \E user \in Users, obj \in Hosts, data \in HostPayloads :
          Authorize(user, "Host", "change", ObjDataArgs(obj, data))

NextHost ==
    \/ AuthorizeHostAdd
    \/ AuthorizeHostChange
    \/ Return

SpecHost == InitHost /\ [][NextHost]_vars

\* The creation of a host with a payload that names an inventory.
HostAddCall ==
    /\ call.fn = "check_user_access"
    /\ call.model = "Host"
    /\ call.action = "add"
    /\ Has(call.args.data, "inventory")

CanChangeNamedInventory ==
    Truthy(check_user_access(call.user, "Inventory", "change",
                             ObjDataArgs(call.args.data.inventory, NoneData)))

\* C6 as stated: with change access to the inventory, the free instances the
\* license reports alone decide between success and the license error.
C6_LicenseAloneDecides ==
    HostAddCall =>
        IF ~CanChangeNamedInventory
        THEN result = Ret(FALSE)
        ELSE IF license.free_instances > 0
        THEN result = Ret(TRUE)
        ELSE result = RaiseLicense(license.available_instances)

\* C6, amended: without change access to the inventory the creation is
\* plainly denied whatever the license says; with it, the creation succeeds
\* if the license reports free instances or 'test' is among the arguments of
\* the process (the free instances are then taken to be 99999999), and
\* otherwise raises the license error carrying the instances the license
\* allows.
C6_HostAddLicenseGate ==
    HostAddCall =>
        IF ~CanChangeNamedInventory
        THEN result = Ret(FALSE)
        ELSE IF license.free_instances > 0 \/ argv_test
        THEN result = Ret(TRUE)
        ELSE result = RaiseLicense(license.available_instances)

\* A user who can change the inventory adds a host when no instance is free:
\* the license error, with the instances allowed.
C6_Witness ==
    /\ HostAddCall
    /\ CanChangeNamedInventory
    /\ ~users[call.user].is_superuser
    /\ license.free_instances = 0
    /\ result = RaiseLicense(license.available_instances)


(* ====================================================================== *)
(* SpecRegistry: access classes registered after the import, for the Job, *)
(* JobHostSummary and JobEvent models.                                     *)
(* ====================================================================== *)
RegistryModels == {"Job", "JobHostSummary", "JobEvent"}

\* The classes whose can_* methods read nothing of the object but what the
\* model has: JobAccess reads a job's status, the other two read no field.
RegistryClasses(model_class) ==
    IF model_class = "Job"
    THEN {"JobAccess", "JobHostSummaryAccess", "JobEventAccess"}
    ELSE {"JobHostSummaryAccess", "JobEventAccess"}

InitRegistry ==
    /\ users = Base.users
    /\ organizations = Base.organizations
    /\ teams = Base.teams
    /\ inventories = Base.inventories
    /\ hosts = Base.hosts
    /\ groups = Base.groups
    /\ credentials = Base.credentials
    /\ projects = Base.projects
    /\ permissions = Base.permissions
    /\ job_templates = Base.job_templates
    /\ jobs = Base.jobs
    /\ license = [free_instances |-> MaxFree, available_instances |-> MaxFree]
    /\ argv_test = FALSE
    /\ access_registry = ImportedRegistry
    /\ NoCall

RegisterAccess ==
    /\ call = Idle
    /\ \E model_class \in RegistryModels :
          /\ Len(access_registry[model_class]) < MaxEvaluators
          /\ \E access_class \in RegistryClasses(model_class) :
                access_registry' = register_access(access_registry, model_class,
                                                   access_class)
    /\ UNCHANGED <<store, call, result, visible>>

RegistryCallArgs(model_class, action) ==
    CASE action \in {"read", "delete", "start", "cancel", "launch"} ->
            {ObjArgs(o) : o \in Objects(model_class)}
      [] action = "add" -> {DataArgs(NoneData)}
      [] action \in {"change", "write", "admin"} ->
            {ObjDataArgs(o, NoneData) : o \in Objects(model_class)}
      [] action = "attach" ->
            {Args(o, "JobEvent", 1, NoneData, skip) :
                o \in Objects(model_class), skip \in BOOLEAN}
      [] action = "unattach" ->
            {Args(o, "JobEvent", 1, NoneData, FALSE) : o \in Objects(model_class)}

AuthorizeRegistry ==
    /\ call = Idle
    /\ \E user \in Users, model_class \in RegistryModels, action \in AllActions :
          \E a \in RegistryCallArgs(model_class, action) :
              Authorize(user, model_class, action, a)

VisibleSetRegistry ==
    /\ call = Idle
    /\ \E user \in Users, model_class \in RegistryModels : VisibleSet(user, model_class)

NextRegistry ==
    \/ RegisterAccess
    \/ AuthorizeRegistry
    \/ VisibleSetRegistry
    \/ Return

SpecRegistry == InitRegistry /\ [][NextRegistry]_vars

\* The registered classes that have a method for the call's action, by
\* position, and what the method of each returns for the call.
Defining == {i \in 1..Len(access_registry[call.model]) :
                HasMethod(access_registry[call.model][i], call.action)}

Answer(i) == Invoke(access_registry[call.model][i], call.user, call.action, call.args)

\* C7: check_user_access answers with the first truthy result of the
\* registered classes that define the action's method, in registration
\* order, passing over those that do not; it answers False, and raises
\* nothing, when no class is registered, none defines the method or none
\* returns a truthy result.
C7_FirstTruthyElseFalse ==
    call.fn = "check_user_access" =>
        /\ (\E i \in Defining :
               /\ Truthy(Answer(i))
               /\ \A j \in Defining : j < i => Answer(j) = Ret(FALSE))
           => result = Ret(TRUE)
        /\ (\A i \in Defining : Answer(i) = Ret(FALSE)) => result = Ret(FALSE)

\* Two classes are registered for Job; the first refuses the change of a
\* running job, the second allows it, and the answer is True.
C7_Witness ==
    /\ call.fn = "check_user_access"
    /\ Cardinality(Defining) >= 2
    /\ Answer(1) = Ret(FALSE)
    /\ \E i \in Defining : Truthy(Answer(i))
    /\ result = Ret(TRUE)

\* The primary keys get_user_queryset answers with under the registry as
\* it stands.
VisiblePks(user, model_class) == get_user_queryset(user, model_class).pks

RegisteredQuerysets ==
    [i \in 1..Len(access_registry[call.model]) |->
        GetQueryset(access_registry[call.model][i], call.user)]

VisibleSetAnswer ==
    call.fn = "get_user_queryset" =>
        LET n == Len(access_registry[call.model])
        IN  /\ n = 0 => visible = QS(call.model, {})
            /\ n = 1 => visible = RegisteredQuerysets[1]
            /\ n > 1 => visible =
                  QS(call.model,
                     {o \in Objects(call.model) :
                         \A i \in 1..n : o \in RegisteredQuerysets[i].pks})

ActiveModels ==
    {"User", "Inventory", "Host", "Group", "Credential", "Team", "JobTemplate"}

IsActive(model_class, obj) ==
    CASE model_class = "User" -> users[obj].is_active
      [] model_class = "Inventory" -> inventories[obj].active
      [] model_class = "Host" -> hosts[obj].active
      [] model_class = "Group" -> groups[obj].active
      [] model_class = "Credential" -> credentials[obj].active
      [] model_class = "Team" -> teams[obj].active
      [] model_class = "JobTemplate" -> job_templates[obj].active

InitActive ==
    /\ \E ua, ia, ha, ca, ta, ja \in BOOLEAN :
          /\ users = [Base.users EXCEPT ![3].is_active = ua]
          /\ inventories = [Base.inventories EXCEPT ![1].active = ia]
          /\ hosts = [Base.hosts EXCEPT ![1].active = ha]
          /\ credentials = [Base.credentials EXCEPT ![1].active = ca]
          /\ teams = [Base.teams EXCEPT ![1].active = ta]
          /\ job_templates = [Base.job_templates EXCEPT ![1].active = ja]
    /\ organizations = Base.organizations
    /\ groups = Base.groups
    /\ projects = Base.projects
    /\ permissions = Base.permissions
    /\ jobs = Base.jobs
    /\ license = [free_instances |-> MaxFree, available_instances |-> MaxFree]
    /\ argv_test = FALSE
    /\ access_registry = ImportedRegistry
    /\ NoCall

AuthorizeActive ==
    /\ call = Idle
    /\ \E user \in Users, model_class \in ActiveModels :
          \E obj \in Objects(model_class) :
              \/ \E action \in {"read", "delete"} :
                    Authorize(user, model_class, action, ObjArgs(obj))
              \/ \E action \in {"change", "write", "admin"} :
                    Authorize(user, model_class, action, ObjDataArgs(obj, NoneData))

VisibleSetActive ==
    /\ call = Idle
    /\ \E user \in Users, model_class \in ActiveModels : VisibleSet(user, model_class)

NextActive ==
    \/ AuthorizeActive
    \/ VisibleSetActive
    \/ Return

SpecActive == InitActive /\ [][NextActive]_vars

\* C9: for every user, superusers included, and every model that has an
\* active flag, an inactive object is in no answer of get_user_queryset and
\* no check_user_access on it answers True.
C9_InactiveIsNonExistent ==
    /\ call.fn = "get_user_queryset"
       => \A obj \in visible.pks : IsActive(visible.model, obj)
    /\ (call.fn = "check_user_access" /\ ~IsActive(call.model, call.args.obj))
       => result # Ret(TRUE)


(* ====================================================================== *)
(* The outcomes of check_user_access, under Spec.                         *)
(* ====================================================================== *)
\* The keys the can_add of a model reads without asking whether the payload
\* has them.
RequiredKeys(model_class) ==
    CASE model_class = "Inventory" -> {"organization"}
      [] model_class \in {"Host", "Group"} -> {"inventory"}
      [] model_class = "JobTemplate" -> {"project", "inventory", "job_type"}
      [] OTHER -> {}

\* A payload as a request carries it: for add, a dict with the keys the
\* model needs; and every object the payload names exists.
PayloadNamesExisting ==
    LET data == call.args.data
    IN  /\ call.action = "add"
           => data.isdict /\ RequiredKeys(call.model) \subseteq data.keys
        /\ Has(data, "organization") => data.organization \in Orgs
        /\ Has(data, "inventory") => data.inventory \in Inventories
        /\ Has(data, "project") => data.project \in Projects
        /\ Has(data, "credential") => data.credential \in Credentials
        /\ Has(data, "user") => data.user \in Users
        /\ Has(data, "team") => data.team \in Teams

\* C10: a check_user_access whose payload names only existing objects
\* either returns a boolean, or raises the license error; and it raises the
\* license error only for the creation of a host in an inventory the user
\* can change when the license has no free instance: no other action and
\* no other model raises.
C10_ReturnsOrLicenseError ==
    (call.fn = "check_user_access" /\ PayloadNamesExisting)
    => \/ result.exc = "none"
       \/ /\ result = RaiseLicense(license.available_instances)
          /\ HostAddCall
          /\ CanChangeNamedInventory
          /\ validation_info.free_instances = 0


(* ====================================================================== *)
(* SpecUserRead: users read by users, under every team membership.        *)
(* ====================================================================== *)
InitUserRead ==
    /\ users = Base.users
    /\ organizations = Base.organizations
    /\ \E m1, m2 \in SUBSET Users :
          teams = [Base.teams EXCEPT ![1].users = m1, ![2].users = m2]
    /\ inventories = Base.inventories
    /\ hosts = Base.hosts
    /\ groups = Base.groups
    /\ credentials = Base.credentials
    /\ projects = Base.projects
    /\ permissions = Base.permissions
    /\ job_templates = Base.job_templates
    /\ jobs = Base.jobs
    /\ license = [free_instances |-> MaxFree, available_instances |-> MaxFree]
    /\ argv_test = FALSE
    /\ access_registry = ImportedRegistry
    /\ NoCall

AuthorizeUserRead ==
    /\ call = Idle
    /\ \E user \in Users, obj \in Users : Authorize(user, "User", "read", ObjArgs(obj))

VisibleSetUserRead ==
    /\ call = Idle
    /\ \E user \in Users : VisibleSet(user, "User")

NextUserRead ==
    \/ AuthorizeUserRead
    \/ VisibleSetUserRead
    \/ Return

SpecUserRead == InitUserRead /\ [][NextUserRead]_vars

\* The user is the target, administers an organization the target belongs
\* to, or is on a team with the target.
RelatedToUser(user, obj) ==
    \/ user = obj
    \/ \E o \in user_organizations(obj) : user \in organizations[o].admins
    \/ user_teams(user) \cap user_teams(obj) # {}

\* C11: a user who is not a superuser reads a User record only if they are
\* that user, administer an organization the target belongs to, or share a
\* team with the target; the read of any other target answers False,
\* whatever teams the reading user is on.
C11_UserReadNeedsRelation ==
    (/\ call.fn = "check_user_access"
     /\ call.model = "User"
     /\ call.action = "read"
     /\ ~users[call.user].is_superuser
     /\ ~RelatedToUser(call.user, call.args.obj))
    => result = Ret(FALSE)


(* ====================================================================== *)
(* The project teams of the user who creates a job template, under        *)
(* SpecJobTemplate.                                                       *)
(* ====================================================================== *)
\* The creation of a job template by a user who is neither superuser nor
\* admin of an organization of the project, who holds a permission that
\* suffices for the job type on the inventory and project, and who owns,
\* directly or through a team, the credential the payload names, if any.
JobTemplateGrantPath ==
    /\ call.fn = "check_user_access"
    /\ call.model = "JobTemplate"
    /\ call.action = "add"
    /\ {"inventory", "project", "job_type"} \subseteq call.args.data.keys
    /\ ~users[call.user].is_superuser
    /\ \A o \in projects[call.args.data.project].organizations :
          call.user \notin organizations[o].admins
    /\ LET data == call.args.data
           held == PairGrantsHeld(call.user, data.inventory, data.project)
       IN  /\ held # {}
           /\ data.job_type = PERM_INVENTORY_DEPLOY => PERM_INVENTORY_DEPLOY \in held
           /\ Has(data, "credential")
              => \/ credentials[data.credential].user = call.user
                 \/ /\ credentials[data.credential].team # None
                    /\ call.user \in teams[credentials[data.credential].team].users

OnProjectTeam ==
    \E t \in projects[call.args.data.project].teams : call.user \in teams[t].users

\* C12: on the grant path the creation of a job template is refused when
\* the user is on no team of the project and allowed when the user is on a
\* team of the project.
C12_GrantPathNeedsProjectTeam ==
    JobTemplateGrantPath => result = Ret(OnProjectTeam)


(* ====================================================================== *)
(* The change and deletion of projects, under Spec.                       *)
(* ====================================================================== *)
ProjectChangeCall ==
    /\ call.fn = "check_user_access"
    /\ call.model = "Project"
    /\ call.action \in {"change", "delete"}

\* The user administers an organization the project belongs to.
AdministersProject(user, obj) ==
    \E o \in projects[obj].organizations : user \in organizations[o].admins

\* C13: the change or deletion of a project answers True exactly for a
\* superuser, the creator of the project and an admin of an organization
\* the project belongs to, and answers False, raising nothing, for every
\* other user.
C13_ProjectChangeExact ==
    ProjectChangeCall =>
        result = Ret(\/ users[call.user].is_superuser
                     \/ projects[call.args.obj].created_by = call.user
                     \/ AdministersProject(call.user, call.args.obj))


(* ====================================================================== *)
(* SpecPermission: permissions read and listed, under every grantee of    *)
(* the two permissions and every membership of team 1.                    *)
(* ====================================================================== *)
InitPermission ==
    /\ users = Base.users
    /\ organizations = Base.organizations
    /\ \E members \in SUBSET {2, 3} : teams = [Base.teams EXCEPT ![1].users = members]
    /\ inventories = Base.inventories
    /\ hosts = Base.hosts
    /\ groups = Base.groups
    /\ credentials = Base.credentials
    /\ projects = Base.projects
    /\ \E u \in Users, t \in Teams :
          permissions = [Base.permissions EXCEPT ![1].user = u, ![2].team = t]
    /\ job_templates = Base.job_templates
    /\ jobs = Base.jobs
    /\ license = [free_instances |-> MaxFree, available_instances |-> MaxFree]
    /\ argv_test = FALSE
    /\ access_registry = ImportedRegistry
    /\ NoCall

AuthorizePermissionRead ==
    /\ call = Idle
    /\ \E user \in Users, obj \in Permissions :
          Authorize(user, "Permission", "read", ObjArgs(obj))

VisibleSetPermission ==
    /\ call = Idle
    /\ \E user \in Users : VisibleSet(user, "Permission")

NextPermission ==
    \/ AuthorizePermissionRead
    \/ VisibleSetPermission
    \/ Return

SpecPermission == InitPermission /\ [][NextPermission]_vars

\* The user is the one the permission is granted to, is on the team it is
\* granted to, or administers an organization of the granted user or the
\* organization of the granted team.
RelatedToPermission(user, obj) ==
    LET pu == permissions[obj].user
        pt == permissions[obj].team
    IN  \/ pu # None /\ pu = user
        \/ pt # None /\ user \in teams[pt].users
        \/ pu # None /\ \E o \in user_organizations(pu) : user \in organizations[o].admins
        \/ pt # None /\ user \in organizations[teams[pt].organization].admins

\* C14: for a user who is not a superuser, get_user_queryset on Permission
\* answers only with permissions granted to the user, to a team of the
\* user, or to a grantee whose organization the user administers, and
\* answers with exactly the permissions the user's read check allows.
C14_PermissionVisibleIffReadable ==
    (/\ call.fn = "get_user_queryset"
     /\ call.model = "Permission"
     /\ ~users[call.user].is_superuser)
    => /\ \A obj \in visible.pks : RelatedToPermission(call.user, obj)
       /\ visible.pks =
             {obj \in Permissions :
                 Truthy(check_user_access(call.user, "Permission", "read", ObjArgs(obj)))}

=============================================================================
